---- MODULE Spec2Model ----
(***************************************************************************)
(* Access-Unlocked: the facility store (PostgreSQL table `facilities`),    *)
(* the proximity search, the OpenStreetMap ingestion client with its rate  *)
(* gate, the tag normalizer and the import routes.                         *)
(*                                                                         *)
(* Coordinates are whole degrees.  Distances are metres on the sphere: one *)
(* degree of a meridian is MetersPerDegree metres.  Times are milliseconds. *)
(* SQL NULL and a JavaScript undefined are the strings NULL and Undefined; *)
(* a nullable boolean column holds "true", "false" or NULL.                *)
(***************************************************************************)
EXTENDS Integers, Sequences, FiniteSets, TLC

(***************************************************************************)
(* Bounds of the model                                                     *)
(***************************************************************************)
MaxRuns == 2        \* import / sync requests handled by the process
MaxCallers == 3     \* direct callers of fetchOSMFacilities
MaxBatch == 2       \* elements in one provider response
MaxTime == 1250     \* the clock runs freely up to here
MaxStored == 2      \* facilities created through createFacility directly

Runs == 1 .. MaxRuns
Callers == 1 .. MaxCallers

(***************************************************************************)
(* Program constants                                                       *)
(***************************************************************************)
rateLimitMs == 500
defaultRadius == 1000
defaultLimit == 20
defaultOffset == 0
\* the ceilings the API documents for the search: radius in metres, page size
documentedMaxRadius == 5000
documentedMaxLimit == 100
\* the attempt ceiling of the documented fetchWithRetry
documentedMaxRetries == 3

\* Date.now() when the first request arrives: long after the epoch
StartTime == 2 * rateLimitMs
\* granularity of the clock
TickMs == rateLimitMs \div 2
\* one degree of a great circle, in metres (circumference of the Earth / 360)
MetersPerDegree == 40030000 \div 360

NULL == "null"
Undefined == "undefined"

Bool(b) == IF b THEN "true" ELSE "false"

\* JavaScript truthiness of a string-or-undefined value
Truthy(v) == v # Undefined /\ v # ""

Abs(n) == IF n < 0 THEN -n ELSE n

(***************************************************************************)
(* Facility type catalog (table facility_types)                            *)
(***************************************************************************)
FacilityTypes == {"toilet", "parking", "ramp", "elevator", "entrance", "station"}

(***************************************************************************)
(* Raw source elements.  A node carries id, lat, lon and (in an `out body` *)
(* block) a tag mapping; a skeleton node (`out skel`) carries no tags; a   *)
(* way carries node references and tags but no coordinates.                *)
(***************************************************************************)
ToiletNode ==
    [type |-> "node", id |-> 1, lat |-> 0, lon |-> 0,
     tags |-> ("amenity" :> "toilets" @@ "toilets:wheelchair" :> "yes")]

EntranceNode ==
    [type |-> "node", id |-> 2, lat |-> 1, lon |-> 0,
     tags |-> ("entrance" :> "main" @@ "wheelchair" :> "yes" @@ "name" :> "Town Hall")]

MalformedNode ==
    [type |-> "node", id |-> 3, lat |-> 999, lon |-> 0,
     tags |-> ("highway" :> "elevator")]

\* a node whose latitude is beyond the pole but fits the lat column
PolarNode ==
    [type |-> "node", id |-> 6, lat |-> 91, lon |-> 0,
     tags |-> ("ramp" :> "yes")]

ParkingWay ==
    [type |-> "way", id |-> 4, nodes |-> <<5>>,
     tags |-> ("amenity" :> "parking" @@ "parking:disabled" :> "yes")]

SkeletonNode ==
    [type |-> "node", id |-> 5, lat |-> 1, lon |-> 0]

OSMElements ==
    {ToiletNode, EntranceNode, MalformedNode, PolarNode, ParkingWay, SkeletonNode}

\* every response the provider can give: at most MaxBatch elements, none of
\* them twice
Batches ==
    UNION {{b \in [1 .. n -> OSMElements] : \A i, j \in 1 .. n : i # j => b[i] # b[j]} :
              n \in 0 .. MaxBatch}

\* tags[k] in JavaScript: undefined when the key is absent
Tag(tags, k) == IF k \in DOMAIN tags THEN tags[k] ELSE Undefined

(***************************************************************************)
(* Tag normalizer: parseOSMElement                                         *)
(***************************************************************************)
\* (mutant) the entrance rule is tested before the elevator and ramp rules
FacilityTypeOf_EntranceFirst(tags) ==
    IF Tag(tags, "amenity") = "toilets" \/ Tag(tags, "toilets:wheelchair") = "yes"
        THEN "toilet"
    ELSE IF Tag(tags, "amenity") = "parking" \/ Tag(tags, "parking:disabled") = "yes"
        THEN "parking"
    ELSE IF Truthy(Tag(tags, "entrance"))
        THEN "entrance"
    ELSE IF Tag(tags, "highway") = "elevator" \/ Tag(tags, "elevator") = "yes"
        THEN "elevator"
    ELSE IF Tag(tags, "ramp") = "yes"
        THEN "ramp"
    ELSE IF Tag(tags, "railway") = "station" \/ Tag(tags, "public_transport") = "station"
        THEN "station"
    ELSE "entrance"

FacilityTypeOf(tags) ==
    IF Tag(tags, "amenity") = "toilets" \/ Tag(tags, "toilets:wheelchair") = "yes"
        THEN "toilet"
    ELSE IF Tag(tags, "amenity") = "parking" \/ Tag(tags, "parking:disabled") = "yes"
        THEN "parking"
    ELSE IF Tag(tags, "highway") = "elevator" \/ Tag(tags, "elevator") = "yes"
        THEN "elevator"
    ELSE IF Tag(tags, "ramp") = "yes"
        THEN "ramp"
    ELSE IF Truthy(Tag(tags, "entrance"))
        THEN "entrance"
    ELSE IF Tag(tags, "railway") = "station" \/ Tag(tags, "public_transport") = "station"
        THEN "station"
    ELSE "entrance"

AccessibilityOf(tags) ==
    [wheelchairAccessible |->
        Bool(Tag(tags, "wheelchair") = "yes" \/ Tag(tags, "wheelchair") = "limited"),
     hasRamp |-> Bool(Tag(tags, "ramp") = "yes"),
     hasElevator |->
        Bool(Tag(tags, "elevator") = "yes" \/ Tag(tags, "highway") = "elevator"),
     hasAccessibleToilet |-> Bool(Tag(tags, "toilets:wheelchair") = "yes"),
     hasAccessibleParking |->
        Bool(Tag(tags, "parking:disabled") = "yes"
             \/ Tag(tags, "parking:disabled") = "designated"),
     hasAutomaticDoor |->
        Bool(Tag(tags, "automatic_door") = "yes" \/ Tag(tags, "door") = "automatic")]

\* facilityTypeId.charAt(0).toUpperCase() + facilityTypeId.slice(1)
Capitalize(t) ==
    CASE t = "toilet" -> "Toilet"
      [] t = "parking" -> "Parking"
      [] t = "ramp" -> "Ramp"
      [] t = "elevator" -> "Elevator"
      [] t = "entrance" -> "Entrance"
      [] t = "station" -> "Station"

\* (mutant) the name is the name tag alone, without the fallbacks
NameOf_NoFallback(tags) == Tag(tags, "name")

NameOf(tags) ==
    IF Truthy(Tag(tags, "name")) THEN Tag(tags, "name")
    ELSE IF Truthy(Tag(tags, "description")) THEN Tag(tags, "description")
    ELSE Capitalize(FacilityTypeOf(tags)) \o " at "
         \o (IF Truthy(Tag(tags, "addr:street")) THEN Tag(tags, "addr:street")
             ELSE "location")

\* The result is tagged: "null" (element skipped), "throw" (reading a tag of an
\* element without a tag mapping raises a TypeError) or "facility".
parseOSMElement(element) ==
    IF element.type # "node" THEN [kind |-> "null"]
    ELSE IF "tags" \notin DOMAIN element THEN [kind |-> "throw"]
    ELSE [kind |-> "facility",
          name |-> NameOf(element.tags),
          facilityTypeId |-> FacilityTypeOf(element.tags),
          location |-> [lat |-> element.lat, lng |-> element.lon],
          accessibility |-> AccessibilityOf(element.tags),
          verified |-> FALSE,
          dataSources |-> <<"openstreetmap">>,
          externalIds |-> [osm |-> "node/" \o ToString(element.id)]]

(***************************************************************************)
(* State                                                                   *)
(***************************************************************************)
VARIABLES
    facilities,       \* the rows of table facilities
    now,              \* Date.now()
    lastRequestTime,  \* the rate gate's module-level variable
    sent,             \* times at which axios.post was issued, in order
    run,              \* the import / sync request handlers
    caller,           \* direct callers of fetchOSMFacilities
    reply             \* the reply of the read being served, NoReply between reads

vars == <<facilities, now, lastRequestTime, sent, run, caller, reply>>

\* uuid_generate_v4(): a fresh id.  Ids are only compared with each other, and
\* the order in which a query returns rows of equal distance is left open, so
\* the next unused number stands for the generated value.
uuid_generate_v4(store) == Cardinality(store) + 1

(***************************************************************************)
(* Facility store: table facilities and createFacility                     *)
(***************************************************************************)
\* lat DECIMAL(10, 8) holds |lat| < 100, lng DECIMAL(11, 8) holds |lng| < 1000
DecimalFits(location) == Abs(location.lat) < 100 /\ Abs(location.lng) < 1000

\* The INSERT is accepted: name NOT NULL, facility_type_id REFERENCES
\* facility_types(id), lat and lng fit their columns.  The table has no CHECK
\* on lat or lng, and the cast of ST_MakePoint(lng, lat) to geography coerces
\* an out-of-range coordinate with a NOTICE (PostGIS 3.3, the documented
\* image), so a latitude beyond 90 that fits the column is stored.
InsertAccepted(facility) ==
    /\ facility.name # NULL
    /\ facility.facilityTypeId \in FacilityTypes \cup {NULL}
    /\ DecimalFits(facility.location)

\* a query parameter: an undefined value is sent as NULL
SqlParam(v) == IF v = Undefined THEN NULL ELSE v

\* The row INSERT ... RETURNING id stores for `facility` under the generated id.
NewRow(id, facility) ==
    [id |-> id,
     name |-> facility.name,
     facility_type_id |-> facility.facilityTypeId,
     lat |-> facility.location.lat,
     lng |-> facility.location.lng,
     wheelchair_accessible |-> SqlParam(facility.accessibility.wheelchairAccessible),
     has_ramp |-> SqlParam(facility.accessibility.hasRamp),
     has_elevator |-> SqlParam(facility.accessibility.hasElevator),
     has_accessible_toilet |-> SqlParam(facility.accessibility.hasAccessibleToilet),
     has_accessible_parking |-> SqlParam(facility.accessibility.hasAccessibleParking),
     has_automatic_door |-> SqlParam(facility.accessibility.hasAutomaticDoor),
     external_ids |-> facility.externalIds,
     deleted_at |-> NULL]

\* (mutant) the id is returned while the row is not in the table
createFacility_NotStored(store, id, facility) == store

\* createFacility(facility) returning `id`: the store after the INSERT
createFacility(store, id, facility) == store \cup {NewRow(id, facility)}

(***************************************************************************)
(* Ingestion client: the rate gate of rateLimitedRequest                   *)
(***************************************************************************)
timeSinceLastRequest == now - lastRequestTime

\* line 13: the caller is suspended on setTimeout
MustWait == timeSinceLastRequest < rateLimitMs

\* the time at which the setTimeout of line 14 is due
WakeTime == now + (rateLimitMs - timeSinceLastRequest)

(***************************************************************************)
(* Import orchestration: importOSMFacilities / syncOSMDataForArea behind   *)
(* POST /import and POST /sync                                             *)
(***************************************************************************)
NoResponse == [status |-> 0]
NoReply == [op |-> "none"]

\* A request handler: where it stands (pc), the route (kind), the requests
\* that had been answered when it arrived (after), how its axios.post settled
\* (fetched), osmData.elements, the loop position (idx), the counter, the ids
\* createFacility returned to it (created), its timer, its reply and the
\* center it was asked for.
IdleRun ==
    [pc |-> "idle", kind |-> "none", center |-> "none", after |-> {}, fetched |-> "pending",
     elements |-> << >>, idx |-> 0, importedCount |-> 0, created |-> {},
     wakeAt |-> 0, response |-> NoResponse]

\* query-string values: missing, not a number, and two numbers
QueryStrings == {"", "abc", "0", "999"}
\* the strings of the model that parseFloat / parseInt read as a number
NumericStrings ==
    {"0", "1", "-1", "101", "999", "-91", "-90", "90", "91", "-181", "-180", "180", "181",
     ToString(MetersPerDegree)}
\* isNaN(parseFloat(s))
isNaN(s) == s \notin NumericStrings

\* parseFloat / parseInt of the numeric query strings of the model
NumberOf(s) ==
    CASE s = "0" -> 0
      [] s = "1" -> 1
      [] s = "-1" -> -1
      [] s = "101" -> 101
      [] s = "999" -> 999
      [] s = "-91" -> -91
      [] s = "-90" -> -90
      [] s = "90" -> 90
      [] s = "91" -> 91
      [] s = "-181" -> -181
      [] s = "-180" -> -180
      [] s = "180" -> 180
      [] s = "181" -> 181
      [] s = ToString(MetersPerDegree) -> MetersPerDegree

\* what the handler holds of the center of its query string after parseFloat:
\* a coordinate missing, one that is not a number, one that is out of range
\* (|lat| > 90 or |lng| > 180), or a point of the globe
CenterOf(q) ==
    IF q.lat = "" \/ q.lng = "" THEN "missing"
    ELSE IF isNaN(q.lat) \/ isNaN(q.lng) THEN "NaN"
    ELSE IF Abs(NumberOf(q.lat)) > 90 \/ Abs(NumberOf(q.lng)) > 180 THEN "out of range"
    ELSE "in range"
Queries == [lat : QueryStrings, lng : QueryStrings]

\* reply.send of the route after the service call returned
SuccessResponse(rn) ==
    IF rn.kind = "import"
    THEN [status |-> 200, success |-> TRUE,
          data |-> [imported |-> rn.importedCount]]
    ELSE [status |-> 200, success |-> TRUE,
          data |-> [total |-> Len(rn.elements), imported |-> rn.importedCount]]

\* reply.status(500) of the route's catch block, with error.message
ErrorResponse(rn, message) ==
    [status |-> 500,
     error |-> IF rn.kind = "import" THEN "Import failed" ELSE "Sync failed",
     message |-> message]

\* the first element from position i on that is not skipped by the normalizer
RECURSIVE NextStop(_, _)
NextStop(elements, i) ==
    IF i > Len(elements) THEN i
    ELSE IF parseOSMElement(elements[i]).kind = "null" THEN NextStop(elements, i + 1)
    ELSE i

\* The for loop from element i up to its next await: the end of the loop (the
\* route replies), an exception thrown by parseOSMElement outside the try block
\* (the route's catch replies 500) or the call of createFacility.
ContinueLoop(rn, i) ==
    LET j == NextStop(rn.elements, i) IN
    IF j > Len(rn.elements)
    THEN [rn EXCEPT !.pc = "done", !.idx = j, !.response = SuccessResponse(rn)]
    ELSE IF parseOSMElement(rn.elements[j]).kind = "throw"
    THEN [rn EXCEPT !.pc = "done", !.idx = j,
                    !.response = ErrorResponse(rn, "TypeError")]
    ELSE [rn EXCEPT !.pc = "creating", !.idx = j]

\* axios.post resolved with `elements`: the loop runs to its first await
FetchedRun(rn, elements) ==
    ContinueLoop([rn EXCEPT !.fetched = "ok", !.elements = elements], 1)

\* (mutant) the catch block of fetchOSMFacilities swallows the rejection and
\* hands back an empty element list
FailedFetchRun_Swallowed(rn) ==
    ContinueLoop([rn EXCEPT !.fetched = "failed", !.elements = << >>], 1)

\* axios.post rejected: fetchOSMFacilities rethrows "Failed to fetch OSM data",
\* the service function lets it pass, the route's catch block replies 500
FailedFetchRun(rn) ==
    [rn EXCEPT !.pc = "done", !.fetched = "failed",
               !.response = ErrorResponse(rn, "Failed to fetch OSM data")]

\* createFacility resolved with `id`: importedCount++ and on with the loop
CreatedRun(rn, id) ==
    ContinueLoop([rn EXCEPT !.importedCount = @ + 1, !.created = @ \cup {id}],
                 rn.idx + 1)

\* (mutant) the counter is incremented before the INSERT is awaited, so a
\* rejected createFacility is counted as well
CreateFailedRun_Counted(rn) ==
    ContinueLoop([rn EXCEPT !.importedCount = @ + 1], rn.idx + 1)

\* createFacility rejected: the catch block of the loop, and on with the loop
CreateFailedRun(rn) == ContinueLoop(rn, rn.idx + 1)

(***************************************************************************)
(* Initial state: an empty table, no request sent yet                      *)
(***************************************************************************)
Init ==
    /\ facilities = {}
    /\ now = StartTime
    /\ lastRequestTime = 0
    /\ sent = << >>
    /\ run = [r \in Runs |-> IdleRun]
    /\ caller = [c \in Callers |-> [pc |-> "idle", wakeAt |-> 0, attempts |-> 0]]
    /\ reply = NoReply

(***************************************************************************)
(* The clock.  It stops at MaxTime unless a timer is still pending.        *)
(***************************************************************************)
TimerPending ==
    \/ \E r \in Runs : run[r].pc = "waiting" /\ run[r].wakeAt > now
    \/ \E c \in Callers : caller[c].pc = "waiting" /\ caller[c].wakeAt > now

Tick ==
    /\ now < MaxTime \/ TimerPending
    /\ now' = now + TickMs
    /\ UNCHANGED <<facilities, lastRequestTime, sent, run, caller, reply>>

(***************************************************************************)
(* POST /import and POST /sync up to the first await                        *)
(***************************************************************************)
\* importOSMFacilities / syncOSMDataForArea -> fetchOSMFacilities ->
\* rateLimitedRequest lines 10-17: wait on the gate, or stamp the gate and post
Answered == {r \in Runs : run[r].pc = "done"}

EnterGate(r, kind, q) ==
    IF MustWait
    THEN /\ run' = [run EXCEPT ![r] =
                        [@ EXCEPT !.pc = "waiting", !.kind = kind, !.after = Answered,
                                  !.center = CenterOf(q), !.wakeAt = WakeTime]]
         /\ UNCHANGED <<lastRequestTime, sent>>
    ELSE /\ run' = [run EXCEPT ![r] =
                        [@ EXCEPT !.pc = "posting", !.kind = kind, !.after = Answered,
                                  !.center = CenterOf(q)]]
         /\ lastRequestTime' = now
         /\ sent' = Append(sent, now)

Reject(r, kind, q, error) ==
    /\ run' = [run EXCEPT ![r] =
                   [@ EXCEPT !.pc = "done", !.kind = kind, !.after = Answered,
                             !.center = CenterOf(q),
                             !.response = [status |-> 400, error |-> error]]]
    /\ UNCHANGED <<lastRequestTime, sent>>

PostImport(r, q) ==
    /\ run[r].pc = "idle"
    /\ IF q.lat = "" \/ q.lng = ""
       THEN Reject(r, "import", q, "Missing required parameters")
       ELSE IF isNaN(q.lat) \/ isNaN(q.lng)
       THEN Reject(r, "import", q, "Invalid parameters")
       ELSE EnterGate(r, "import", q)
    /\ UNCHANGED <<facilities, now, caller, reply>>

PostSync(r, q) ==
    /\ run[r].pc = "idle"
    /\ IF q.lat = "" \/ q.lng = ""
       THEN Reject(r, "sync", q, "Missing required parameters")
       ELSE EnterGate(r, "sync", q)
    /\ UNCHANGED <<facilities, now, caller, reply>>

\* the setTimeout of line 14 fires (never early): lines 17-19
GateWake(r) ==
    /\ run[r].pc = "waiting"
    /\ now >= run[r].wakeAt
    /\ run' = [run EXCEPT ![r] = [@ EXCEPT !.pc = "posting"]]
    /\ lastRequestTime' = now
    /\ sent' = Append(sent, now)
    /\ UNCHANGED <<facilities, now, caller, reply>>

\* axios.post resolves with the provider's elements; the loop runs to its
\* first await
FetchOk(r, elements) ==
    /\ run[r].pc = "posting"
    /\ run' = [run EXCEPT ![r] = FetchedRun(@, elements)]
    /\ UNCHANGED <<facilities, now, lastRequestTime, sent, caller, reply>>

\* axios.post rejects (network error, timeout, HTTP 4xx/5xx such as 429):
\* fetchOSMFacilities rethrows, the service rethrows, the route replies 500
FetchFail(r) ==
    /\ run[r].pc = "posting"
    /\ run' = [run EXCEPT ![r] = FailedFetchRun(@)]
    /\ UNCHANGED <<facilities, now, lastRequestTime, sent, caller, reply>>

\* createFacility resolves with the new id: count it and go on
CreateOk(r) ==
    LET rn == run[r]
        facility == parseOSMElement(rn.elements[rn.idx])
        id == uuid_generate_v4(facilities)
    IN  /\ rn.pc = "creating"
        /\ InsertAccepted(facility)
        /\ facilities' = createFacility(facilities, id, facility)
        /\ run' = [run EXCEPT ![r] = CreatedRun(rn, id)]
        /\ UNCHANGED <<now, lastRequestTime, sent, caller, reply>>

\* createFacility rejects, the INSERT violating a constraint: the catch block
\* logs and the loop goes on
CreateFail(r) ==
    LET rn == run[r] IN
        /\ rn.pc = "creating"
        /\ ~InsertAccepted(parseOSMElement(rn.elements[rn.idx]))
        /\ run' = [run EXCEPT ![r] = CreateFailedRun(rn)]
        /\ UNCHANGED <<facilities, now, lastRequestTime, sent, caller, reply>>

NextImport ==
    \/ Tick
    \/ \E r \in Runs, q \in Queries : PostImport(r, q)
    \/ \E r \in Runs, q \in Queries : PostSync(r, q)
    \/ \E r \in Runs : GateWake(r)
    \/ \E r \in Runs, elements \in Batches : FetchOk(r, elements)
    \/ \E r \in Runs : FetchFail(r)
    \/ \E r \in Runs : CreateOk(r)
    \/ \E r \in Runs : CreateFail(r)

Spec == Init /\ [][NextImport]_vars

(***************************************************************************)
(* Direct callers of the ingestion client: fetchOSMFacilities              *)
(***************************************************************************)
\* fetchOSMFacilities -> rateLimitedRequest lines 10-17.  `attempts` counts
\* the calls of axios.post made for the caller.
CallFetch(c) ==
    /\ caller[c].pc = "idle"
    /\ IF MustWait
       THEN /\ caller' = [caller EXCEPT ![c] =
                              [@ EXCEPT !.pc = "waiting", !.wakeAt = WakeTime]]
            /\ UNCHANGED <<lastRequestTime, sent>>
       ELSE /\ caller' = [caller EXCEPT ![c] =
                              [@ EXCEPT !.pc = "posting", !.attempts = @ + 1]]
            /\ lastRequestTime' = now
            /\ sent' = Append(sent, now)
    /\ UNCHANGED <<facilities, now, run, reply>>

\* the setTimeout of line 14 fires (never early): lines 17-19
CallerWake(c) ==
    /\ caller[c].pc = "waiting"
    /\ now >= caller[c].wakeAt
    /\ caller' = [caller EXCEPT ![c] = [@ EXCEPT !.pc = "posting", !.attempts = @ + 1]]
    /\ lastRequestTime' = now
    /\ sent' = Append(sent, now)
    /\ UNCHANGED <<facilities, now, run, reply>>

\* axios.post resolves: the data is returned to the caller
CallerFetchOk(c) ==
    /\ caller[c].pc = "posting"
    /\ caller' = [caller EXCEPT ![c] = [@ EXCEPT !.pc = "returned"]]
    /\ UNCHANGED <<facilities, now, lastRequestTime, sent, run, reply>>

\* axios.post rejects: fetchOSMFacilities throws "Failed to fetch OSM data"
CallerFetchFail(c) ==
    /\ caller[c].pc = "posting"
    /\ caller' = [caller EXCEPT ![c] = [@ EXCEPT !.pc = "thrown"]]
    /\ UNCHANGED <<facilities, now, lastRequestTime, sent, run, reply>>

NextGate ==
    \/ Tick
    \/ \E c \in Callers : CallFetch(c)
    \/ \E c \in Callers : CallerWake(c)
    \/ \E c \in Callers : CallerFetchOk(c)
    \/ \E c \in Callers : CallerFetchFail(c)

SpecGate == Init /\ [][NextGate]_vars

(***************************************************************************)
(* Proximity search: searchNearbyFacilities and getFacilityById            *)
(***************************************************************************)
\* an optional parameter: << >> when undefined, <<v>> when given
None == << >>
Some(v) == <<v>>
OrDefault(opt, default) == IF opt = None THEN default ELSE opt[1]

Min(a, b) == IF a < b THEN a ELSE b

\* ST_Distance on geography points: the great-circle arc in metres.  The points
\* of this model lie on one meridian (the arc is the difference in latitude;
\* every meridian passes through a pole), on opposite meridians (the arc runs
\* over the nearer pole) or on the equator.
ST_Distance(lat1, lng1, lat2, lng2) ==
    CASE lng1 = lng2 \/ Abs(lng1 - lng2) = 360 \/ Abs(lat1) = 90 \/ Abs(lat2) = 90 ->
            MetersPerDegree * Abs(lat1 - lat2)
      [] Abs(lng1 - lng2) = 180 /\ Abs(lat1) # 90 /\ Abs(lat2) # 90 ->
            MetersPerDegree * (180 - Abs(lat1 + lat2))
      [] Abs(lng1 - lng2) \notin {0, 180, 360} /\ lat1 = 0 /\ lat2 = 0 ->
            MetersPerDegree * Min(Abs(lng1 - lng2), 360 - Abs(lng1 - lng2))

\* (mutant) the radius test excludes the boundary
ST_DWithin_Strict(lat1, lng1, lat2, lng2, radius) ==
    ST_Distance(lat1, lng1, lat2, lng2) < radius

\* ST_DWithin: true when the distance is at most the radius
ST_DWithin(lat1, lng1, lat2, lng2, radius) ==
    ST_Distance(lat1, lng1, lat2, lng2) <= radius

\* (mutant) an empty facilityTypes array is pushed as a condition, which no
\* row satisfies
SearchWhere_EmptyTypesRestrict(row, params) ==
    /\ ST_DWithin(row.lat, row.lng, params.lat, params.lng,
                  OrDefault(params.radius, defaultRadius))
    /\ row.deleted_at = NULL
    /\ params.facilityTypes # None
          => \E i \in 1 .. Len(params.facilityTypes[1]) :
                 row.facility_type_id = params.facilityTypes[1][i]
    /\ params.wheelchairAccessible # None
          => row.wheelchair_accessible = Bool(params.wheelchairAccessible[1])

\* the WHERE clause of the search, built from the conditions array
SearchWhere(row, params) ==
    /\ ST_DWithin(row.lat, row.lng, params.lat, params.lng,
                  OrDefault(params.radius, defaultRadius))
    /\ row.deleted_at = NULL
    /\ (params.facilityTypes # None /\ Len(params.facilityTypes[1]) > 0)
          => \E i \in 1 .. Len(params.facilityTypes[1]) :
                 row.facility_type_id = params.facilityTypes[1][i]
    /\ params.wheelchairAccessible # None
          => row.wheelchair_accessible = Bool(params.wheelchairAccessible[1])

\* the selected row, with its distance column
WithDistance(row, params) ==
    [facility |-> row,
     distance |-> ST_Distance(row.lat, row.lng, params.lat, params.lng)]

\* ORDER BY distance ASC: every arrangement of the rows in which the distances
\* do not decrease; SQL leaves the order of rows of equal distance open
OrderByDistance(rows) ==
    {o \in [1 .. Cardinality(rows) -> rows] :
        /\ \A i, j \in DOMAIN o : i # j => o[i] # o[j]
        /\ \A i, j \in DOMAIN o : i < j => o[i].distance <= o[j].distance}

\* LIMIT limit OFFSET offset
LimitOffset(ordered, limit, offset) ==
    SubSeq(ordered, offset + 1, Min(Len(ordered), offset + limit))

\* searchNearbyFacilities(params): the lists the query can return
searchNearbyFacilities(store, params) ==
    LET selected == {WithDistance(row, params) : row \in {r \in store : SearchWhere(r, params)}}
    IN  {LimitOffset(o, OrDefault(params.limit, defaultLimit),
                        OrDefault(params.offset, defaultOffset)) :
            o \in OrderByDistance(selected)}

\* (mutant) the lookup forgets the soft-delete condition
getFacilityById_AnyRow(store, id) == {row \in store : row.id = id}

\* getFacilityById(id): the rows with that id that are not soft-deleted
\* (none: the function returns null)
getFacilityById(store, id) == {row \in store : row.id = id /\ row.deleted_at = NULL}

(***************************************************************************)
(* Writers of the store other than the import: createFacility called with  *)
(* a candidate of its own, and the administrative soft delete.  Statements *)
(* are atomic; the model serves one read at a time and writes between      *)
(* reads, so a reply is always read against the store it was computed on.  *)
(***************************************************************************)
CandidateLats == {0, 1}
CandidateKinds ==
    {[type |-> "toilet", wheelchair |-> "true"],
     [type |-> "ramp", wheelchair |-> "false"],
     [type |-> "toilet", wheelchair |-> Undefined]}

Candidate(lat, kind) ==
    [name |-> "Facility",
     facilityTypeId |-> kind.type,
     location |-> [lat |-> lat, lng |-> 0],
     accessibility |->
        [wheelchairAccessible |-> kind.wheelchair, hasRamp |-> Undefined,
         hasElevator |-> Undefined, hasAccessibleToilet |-> Undefined,
         hasAccessibleParking |-> Undefined, hasAutomaticDoor |-> Undefined],
     verified |-> FALSE,
     dataSources |-> <<"manual">>,
     externalIds |-> << >>]

Candidates == {Candidate(lat, kind) : lat \in CandidateLats, kind \in CandidateKinds}

\* the candidates of the calls that probe the limits of the coordinates and
\* the catalog: one property at a time away from a toilet at (0, 0)
CandidateAt(lat, lng, type) ==
    [Candidate(lat, [type |-> type, wheelchair |-> Undefined])
        EXCEPT !.location = [lat |-> lat, lng |-> lng]]

LimitCandidates ==
    {CandidateAt(lat, 0, "toilet") : lat \in {-100, -91, -90, 0, 90, 91, 100}}
    \cup {CandidateAt(0, lng, "toilet") : lng \in {-1000, -181, -180, 180, 181, 1000}}
    \cup {CandidateAt(0, 0, "cafe")}

\* createFacility(facility) called by a caller of the service: the INSERT
\* stores the row and the id is returned, or the statement is refused, the
\* promise rejects and nothing is stored
CreateDirect(facility) ==
    /\ reply = NoReply
    /\ Cardinality(facilities) < MaxStored
    /\ IF InsertAccepted(facility)
       THEN /\ facilities' = createFacility(facilities, uuid_generate_v4(facilities),
                                           facility)
            /\ reply' = [op |-> "create", facility |-> facility, outcome |-> "returned",
                         id |-> uuid_generate_v4(facilities)]
       ELSE /\ facilities' = facilities
            /\ reply' = [op |-> "create", facility |-> facility, outcome |-> "thrown",
                         id |-> 0]
    /\ UNCHANGED <<now, lastRequestTime, sent, run, caller>>

\* UPDATE facilities SET deleted_at = <timestamp> WHERE id = $1
SoftDelete(id) ==
    /\ reply = NoReply
    /\ \E row \in facilities : row.id = id /\ row.deleted_at = NULL
    /\ facilities' = {IF row.id = id THEN [row EXCEPT !.deleted_at = "deleted"] ELSE row :
                        row \in facilities}
    /\ UNCHANGED <<now, lastRequestTime, sent, run, caller, reply>>

(***************************************************************************)
(* Readers: the service functions and the routes GET /nearby and GET /:id  *)
(***************************************************************************)
\* types.split(',')
Split(s) ==
    CASE s = "toilet" -> <<"toilet">>
      [] s = "toilet,ramp" -> <<"toilet", "ramp">>

\* the parameters of the service calls of the model
SearchParams ==
    {p \in [lat : {0}, lng : {0},
            radius : {None, Some(MetersPerDegree)},
            facilityTypes : {None, Some(<< >>), Some(<<"toilet">>)},
            wheelchairAccessible : {None, Some(TRUE), Some(FALSE)},
            limit : {None, Some(1)},
            offset : {None, Some(1)}] :
        p.offset # None => p.limit # None}

\* the centers on and just beyond the limits of latitude and longitude
BoundaryLats == {"-91", "-90", "0", "90", "91"}
BoundaryLngs == {"-181", "-180", "0", "180", "181"}

\* the query strings of the model: every choice of the optional parameters at
\* the center (0, 0), the centers the route refuses, the centers around the
\* limits, and radius and pagination values outside the documented ranges
NearbyQueries ==
    {q \in [lat : {"0"}, lng : {"0"},
            radius : {"", ToString(MetersPerDegree)},
            types : {"", "toilet"},
            wheelchairAccessible : {"", "true", "false"},
            limit : {"", "1"},
            offset : {"", "1"}] :
        q.offset # "" => q.limit # ""}
    \cup [lat : QueryStrings, lng : QueryStrings, radius : {""}, types : {""},
          wheelchairAccessible : {"yes"}, limit : {""}, offset : {""}]
    \cup [lat : BoundaryLats, lng : BoundaryLngs, radius : {""}, types : {""},
          wheelchairAccessible : {""}, limit : {""}, offset : {""}]
    \cup {q \in [lat : {"0"}, lng : {"0"}, radius : {"", "0"}, types : {""},
                 wheelchairAccessible : {""}, limit : {"", "101", "-1"},
                 offset : {"", "-1"}] :
            Cardinality({f \in {"radius", "limit", "offset"} : q[f] # ""}) = 1}

\* lines 59-67 of the route: the query string as FacilitySearchParams
NearbyParams(q) ==
    [lat |-> NumberOf(q.lat),
     lng |-> NumberOf(q.lng),
     radius |-> IF q.radius # "" THEN Some(NumberOf(q.radius)) ELSE None,
     facilityTypes |-> IF q.types # "" THEN Some(Split(q.types)) ELSE None,
     wheelchairAccessible |->
        IF q.wheelchairAccessible = "true" THEN Some(TRUE)
        ELSE IF q.wheelchairAccessible = "false" THEN Some(FALSE)
        ELSE None,
     limit |-> IF q.limit # "" THEN Some(NumberOf(q.limit)) ELSE None,
     offset |-> IF q.offset # "" THEN Some(NumberOf(q.offset)) ELSE None]

\* (mutant) the range checks are written with <= and >=, refusing the limits
NearbyRejection_LimitsRefused(q) ==
    IF q.lat = "" \/ q.lng = "" THEN "Missing required parameters"
    ELSE IF isNaN(q.lat) \/ isNaN(q.lng) THEN "Invalid parameters"
    ELSE IF NumberOf(q.lat) <= -90 \/ NumberOf(q.lat) >= 90 THEN "Invalid latitude"
    ELSE IF NumberOf(q.lng) <= -180 \/ NumberOf(q.lng) >= 180 THEN "Invalid longitude"
    ELSE ""

\* lines 27-57 of the route: the 400 reply, or "" when the center is accepted
NearbyRejection(q) ==
    IF q.lat = "" \/ q.lng = "" THEN "Missing required parameters"
    ELSE IF isNaN(q.lat) \/ isNaN(q.lng) THEN "Invalid parameters"
    ELSE IF NumberOf(q.lat) < -90 \/ NumberOf(q.lat) > 90 THEN "Invalid latitude"
    ELSE IF NumberOf(q.lng) < -180 \/ NumberOf(q.lng) > 180 THEN "Invalid longitude"
    ELSE ""

\* PostgreSQL refuses the statement: LIMIT / OFFSET must not be negative.  The
\* promise of query() rejects and searchNearbyFacilities passes the error on.
QueryRefused(params) ==
    \/ OrDefault(params.limit, defaultLimit) < 0
    \/ OrDefault(params.offset, defaultOffset) < 0

\* a call of searchNearbyFacilities by a caller of the service
Search(params) ==
    /\ reply = NoReply
    /\ \E list \in searchNearbyFacilities(facilities, params) :
           reply' = [op |-> "search", params |-> params, facilities |-> list]
    /\ UNCHANGED <<facilities, now, lastRequestTime, sent, run, caller>>

\* the caller of a first page of one facility calls searchNearbyFacilities
\* again for the page after it, the store unchanged in between
SearchNextPage ==
    /\ reply.op = "search"
    /\ reply.params.limit = Some(1) /\ reply.params.offset = None
    /\ \E list \in searchNearbyFacilities(facilities,
                                           [reply.params EXCEPT !.offset = Some(1)]) :
           reply' = [op |-> "pages", params |-> reply.params,
                     first |-> reply.facilities, second |-> list]
    /\ UNCHANGED <<facilities, now, lastRequestTime, sent, run, caller>>

\* GET /facilities/nearby
GetNearby(q) ==
    /\ reply = NoReply
    /\ IF NearbyRejection(q) # ""
       THEN reply' = [op |-> "nearby", query |-> q, status |-> 400,
                      error |-> NearbyRejection(q)]
       ELSE IF QueryRefused(NearbyParams(q))
       THEN reply' = [op |-> "nearby", query |-> q, status |-> 500,
                      error |-> "Search failed", params |-> NearbyParams(q)]
       ELSE \E list \in searchNearbyFacilities(facilities, NearbyParams(q)) :
                reply' = [op |-> "nearby", query |-> q, status |-> 200,
                          params |-> NearbyParams(q),
                          facilities |-> list, count |-> Len(list)]
    /\ UNCHANGED <<facilities, now, lastRequestTime, sent, run, caller>>

\* GET /facilities/:id
GetById(id) ==
    /\ reply = NoReply
    /\ LET found == getFacilityById(facilities, id) IN
          reply' = IF found = {}
                   THEN [op |-> "get", id |-> id, status |-> 404, error |-> "Not found"]
                   ELSE [op |-> "get", id |-> id, status |-> 200,
                         facility |-> CHOOSE row \in found : TRUE]
    /\ UNCHANGED <<facilities, now, lastRequestTime, sent, run, caller>>

\* reply.send: the reply leaves the process
Deliver ==
    /\ reply # NoReply
    /\ reply' = NoReply
    /\ UNCHANGED <<facilities, now, lastRequestTime, sent, run, caller>>

NextSearch ==
    \/ \E facility \in Candidates : CreateDirect(facility)
    \/ \E id \in 1 .. MaxStored : SoftDelete(id)
    \/ \E params \in SearchParams : Search(params)
    \/ SearchNextPage
    \/ \E q \in NearbyQueries : GetNearby(q)
    \/ \E id \in 1 .. MaxStored : GetById(id)
    \/ Deliver

SpecSearch == Init /\ [][NextSearch]_vars

(***************************************************************************)
(* Callers of createFacility at the limits of its input                    *)
(***************************************************************************)
NextCreate ==
    \/ \E facility \in LimitCandidates : CreateDirect(facility)
    \/ \E id \in 1 .. MaxStored : GetById(id)
    \/ Deliver

SpecCreate == Init /\ [][NextCreate]_vars

(***************************************************************************)
(* Callers of the normalizer: parseOSMElement applied to the tag mappings  *)
(* a node can carry                                                        *)
(***************************************************************************)
\* the mappings of T, each also extended by key k with a value of V
WithTag(T, k, V) == T \cup {t @@ (k :> v) : t \in T, v \in V}

\* no tag, or any combination of the tags the normalizer reads for the type
\* and for three of the flags
TagMappings ==
    LET t0 == {<< >>}
        t1 == WithTag(t0, "amenity", {"toilets", "parking"})
        t2 == WithTag(t1, "toilets:wheelchair", {"yes", "no"})
        t3 == WithTag(t2, "parking:disabled", {"yes"})
        t4 == WithTag(t3, "highway", {"elevator"})
        t5 == WithTag(t4, "elevator", {"yes"})
        t6 == WithTag(t5, "ramp", {"yes", "no"})
        t7 == WithTag(t6, "entrance", {"main"})
        t8 == WithTag(t7, "railway", {"station"})
        t9 == WithTag(t8, "public_transport", {"station"})
    IN  WithTag(t9, "wheelchair", {"yes", "no", "limited"})

\* the tags the name is built from, each absent, empty or given, on nodes of
\* three types
NameMappings ==
    LET t0 == {<< >>, "amenity" :> "parking", "ramp" :> "yes"}
        t1 == WithTag(t0, "name", {"", "Town Hall"})
        t2 == WithTag(t1, "description", {"", "Step-free"})
    IN  WithTag(t2, "addr:street", {"", "High Street"})

TaggedNode(tags) == [type |-> "node", id |-> 1, lat |-> 0, lon |-> 0, tags |-> tags]

\* parseOSMElement(element), its result handed to the caller
Parse(element) ==
    /\ reply = NoReply
    /\ reply' = [op |-> "parse", element |-> element, result |-> parseOSMElement(element)]
    /\ UNCHANGED <<facilities, now, lastRequestTime, sent, run, caller>>

NextNormalize ==
    \/ \E tags \in TagMappings \cup NameMappings : Parse(TaggedNode(tags))
    \/ \E element \in OSMElements : Parse(element)
    \/ Deliver

SpecNormalize == Init /\ [][NextNormalize]_vars

(***************************************************************************)
(* Properties of the import (specification Spec)                           *)
(***************************************************************************)
Live(row) == row.deleted_at = NULL

\* the two rows carry the same (source name, external id) pair
SameExternalId(f, g) ==
    \E source \in DOMAIN f.external_ids \cap DOMAIN g.external_ids :
        f.external_ids[source] = g.external_ids[source]

Completed(r) == run[r].pc = "done" /\ run[r].response.status = 200

\* the element is a node that normalizes to a facility the store accepts
Importable(element) ==
    /\ parseOSMElement(element).kind = "facility"
    /\ InsertAccepted(parseOSMElement(element))

\* the element is a node that normalizes to a facility the store refuses
Malformed(element) ==
    /\ parseOSMElement(element).kind = "facility"
    /\ ~InsertAccepted(parseOSMElement(element))

\* C1: no two facilities that are not tombstoned share a (source name,
\* external id) pair, whatever import runs have written to the store.
C1_UniqueExternalId ==
    \A f, g \in facilities :
        (f.id # g.id /\ Live(f) /\ Live(g)) => ~SameExternalId(f, g)

\* C2: of two import runs in sequence over the same N importable node
\* elements, the first reports imported = N, the second reports imported = 0
\* and adds no facility.
C2_ImportIdempotent ==
    \A r1, r2 \in Runs :
        (/\ Completed(r1) /\ Completed(r2)
         /\ run[r1].after = {} /\ r1 \in run[r2].after
         /\ run[r1].elements = run[r2].elements
         /\ \A i \in DOMAIN run[r1].elements : Importable(run[r1].elements[i]))
        => /\ run[r1].response.data.imported = Len(run[r1].elements)
           /\ run[r2].response.data.imported = 0
           /\ run[r2].created = {}

\* C4: a batch of node elements of which exactly one is refused by
\* createFacility is processed to its end, the failure is counted, and the run
\* reports imported = (number of elements - 1) and failed = 1.
C4_FailureCountedBatchContinues ==
    \A r \in Runs :
        (/\ run[r].pc = "done" /\ run[r].fetched = "ok"
         /\ \A i \in DOMAIN run[r].elements :
                Importable(run[r].elements[i]) \/ Malformed(run[r].elements[i])
         /\ Cardinality({i \in DOMAIN run[r].elements : Malformed(run[r].elements[i])}) = 1)
        => /\ run[r].response.status = 200
           /\ run[r].idx = Len(run[r].elements) + 1
           /\ run[r].response.data.imported = Len(run[r].elements) - 1
           /\ "failed" \in DOMAIN run[r].response.data
           /\ run[r].response.data.failed = 1

\* C5: a completed run reports totalFetched, imported, skipped and failed, the
\* last three adding up to the first, and a run with a failed element is not
\* reported as a success.
C5_FourCountsReported ==
    \A r \in Runs :
        Completed(r) =>
            LET data == run[r].response.data IN
            /\ {"totalFetched", "imported", "skipped", "failed"} \subseteq DOMAIN data
            /\ data.imported + data.skipped + data.failed = data.totalFetched
            /\ data.failed > 0 => run[r].response.success # TRUE

\* C6: a run whose fetch failed is answered with the error reply, is not
\* reported as a success and has written no facility.
C6_FetchFailureFailsRun ==
    \A r \in Runs :
        run[r].fetched = "failed" =>
            /\ run[r].pc = "done"
            /\ run[r].response.status = 500
            /\ "error" \in DOMAIN run[r].response
            /\ "success" \notin DOMAIN run[r].response
            /\ run[r].created = {}
            /\ run[r].importedCount = 0
            /\ \A f \in facilities : f.id \notin run[r].created

\* a run failed on its fetch while the other run had written a facility
C6_Witness ==
    \E r, o \in Runs :
        /\ run[r].fetched = "failed" /\ run[r].response.status = 500
        /\ run[o].created # {} /\ facilities # {}

(***************************************************************************)
(* Properties of the rate gate (specification SpecGate)                    *)
(***************************************************************************)
\* C3: any two successive requests sent to the provider are at least
\* rateLimitMs apart.
C3_MinimumInterval ==
    \A i \in 1 .. Len(sent) - 1 : sent[i + 1] - sent[i] >= rateLimitMs

(***************************************************************************)
(* Properties of the reads (specification SpecSearch)                      *)
(***************************************************************************)
\* the reply carries a search result
SearchReply ==
    \/ reply.op = "search"
    \/ reply.op = "nearby" /\ reply.status = 200

ReplyRows == {reply.facilities[i].facility : i \in DOMAIN reply.facilities}

NoTypeFilter(params) ==
    params.facilityTypes = None \/ params.facilityTypes = Some(<< >>)

\* limit and offset leave room for every stored facility
WidePagination(params) ==
    /\ OrDefault(params.offset, defaultOffset) = 0
    /\ OrDefault(params.limit, defaultLimit) >= Cardinality(facilities)

greatCircleDistance(row, params) ==
    ST_Distance(row.lat, row.lng, params.lat, params.lng)

InRadius(row, params) ==
    greatCircleDistance(row, params) <= OrDefault(params.radius, defaultRadius)

TypeMatches(row, params) ==
    NoTypeFilter(params)
    \/ \E i \in DOMAIN params.facilityTypes[1] :
           row.facility_type_id = params.facilityTypes[1][i]

WheelchairMatches(row, params) ==
    \/ params.wheelchairAccessible = None
    \/ params.wheelchairAccessible = Some(TRUE) /\ row.wheelchair_accessible = "true"
    \/ params.wheelchairAccessible = Some(FALSE) /\ row.wheelchair_accessible = "false"

C8_SortedByDistanceThenId ==
    SearchReply =>
        \A i, j \in DOMAIN reply.facilities :
            i < j =>
                \/ reply.facilities[i].distance < reply.facilities[j].distance
                \/ /\ reply.facilities[i].distance = reply.facilities[j].distance
                   /\ reply.facilities[i].facility.id < reply.facilities[j].facility.id

\* C9: a tombstoned facility, still a row of the table, is in no search result
\* and getFacilityById answers NotFound for its id; an id that was handed out
\* and is answered NotFound is a tombstoned row of the table.
C9_TombstonedNeverReturned ==
    /\ \A row \in facilities :
           ~Live(row) =>
               /\ SearchReply =>
                      \A i \in DOMAIN reply.facilities :
                          reply.facilities[i].facility.id # row.id
               /\ (reply.op = "get" /\ reply.id = row.id) => reply.status = 404
    /\ (reply.op = "get" /\ reply.status = 200) => Live(reply.facility)
    /\ (reply.op = "get" /\ reply.status = 404 /\ reply.id <= Cardinality(facilities))
           => \E row \in facilities : row.id = reply.id /\ ~Live(row)

\* the lookup of a tombstoned id was answered NotFound, the row still stored
C9_Witness ==
    /\ reply.op = "get" /\ reply.status = 404
    /\ \E row \in facilities : row.id = reply.id /\ ~Live(row)

\* C10: filters restrict and never widen.  Every result satisfies the type
\* filter and the wheelchair filter that were given (a facility whose flag is
\* unknown satisfies neither true nor false); an absent type filter, the empty
\* type list included, and an absent wheelchair filter leave out nothing that
\* the rest of the query selects.
C10_FiltersRestrict ==
    SearchReply =>
        /\ \A row \in ReplyRows :
               /\ TypeMatches(row, reply.params)
               /\ WheelchairMatches(row, reply.params)
               /\ InRadius(row, reply.params) /\ Live(row)
        /\ WidePagination(reply.params) =>
               \A row \in facilities :
                   (/\ InRadius(row, reply.params) /\ Live(row)
                    /\ TypeMatches(row, reply.params)
                    /\ WheelchairMatches(row, reply.params))
                   => row \in ReplyRows

\* a search with the empty type list and wheelchairAccessible = false returned
\* a facility and left out one of unknown flag within the radius
C10_Witness ==
    /\ SearchReply
    /\ reply.params.facilityTypes = Some(<< >>)
    /\ reply.params.wheelchairAccessible = Some(FALSE)
    /\ ReplyRows # {}
    /\ \E row \in facilities :
           /\ row.wheelchair_accessible = NULL /\ Live(row)
           /\ InRadius(row, reply.params)
           /\ row \notin ReplyRows

\* the store was queried for the reply: the route got past its validation
StoreQueried == reply.op = "search" \/ (reply.op = "nearby" /\ reply.status # 400)

\* the facilities the query of the reply matches, whatever the page
Matching(params) ==
    {row \in facilities :
        /\ Live(row) /\ InRadius(row, params)
        /\ TypeMatches(row, params) /\ WheelchairMatches(row, params)}

\* C11: the store is never queried with a radius outside (0, ceiling], the
\* ceiling being the documented maximum of 5000 m: such a request is refused
\* or its radius clamped.
C11_RadiusBounded ==
    StoreQueried =>
        /\ OrDefault(reply.params.radius, defaultRadius) > 0
        /\ OrDefault(reply.params.radius, defaultRadius) <= documentedMaxRadius

\* C12: a negative limit or offset, or a limit above the documented maximum of
\* 100, never reaches the store query.
C12_PaginationValidated ==
    StoreQueried =>
        /\ OrDefault(reply.params.limit, defaultLimit) >= 0
        /\ OrDefault(reply.params.limit, defaultLimit) <= documentedMaxLimit
        /\ OrDefault(reply.params.offset, defaultOffset) >= 0

\* C13: the count returned with a search result is the number of facilities
\* of the store that match the query, whatever limit and offset are.
C13_CountIsTotal ==
    (reply.op = "nearby" /\ reply.status = 200) =>
        reply.count = Cardinality(Matching(reply.params))

\* the center of the query string, when both coordinates are numbers
CenterGiven(q) == q.lat \in NumericStrings /\ q.lng \in NumericStrings

CenterInRange(q) ==
    /\ CenterGiven(q)
    /\ NumberOf(q.lat) \in -90 .. 90
    /\ NumberOf(q.lng) \in -180 .. 180

\* C16: GET /nearby answers 400 without querying the store when lat or lng is
\* missing, not a number or out of range, and every center with lat in
\* [-90, 90] and lng in [-180, 180], the limits included, passes validation.
C16_CenterValidated ==
    reply.op = "nearby" =>
        /\ ~CenterInRange(reply.query) =>
               /\ reply.status = 400
               /\ "facilities" \notin DOMAIN reply
        /\ CenterInRange(reply.query) => reply.status # 400

\* a search centered on the pole at the date line was answered from the store
C16_Witness ==
    /\ reply.op = "nearby" /\ reply.status = 200
    /\ reply.query.lat = "90" /\ reply.query.lng = "-180"
    /\ facilities # {}

(***************************************************************************)
(* Properties of createFacility (specifications SpecCreate, SpecSearch)    *)
(***************************************************************************)
CreateReply == reply.op = "create"

\* the candidate is valid: coordinates in range, type in the catalog
ValidCandidate(facility) ==
    /\ facility.location.lat \in -90 .. 90
    /\ facility.location.lng \in -180 .. 180
    /\ facility.facilityTypeId \in FacilityTypes

StoredAs(row, facility) ==
    /\ row.lat = facility.location.lat /\ row.lng = facility.location.lng
    /\ row.facility_type_id = facility.facilityTypeId

\* C14: createFacility fails and stores nothing when latitude is outside
\* [-90, 90], longitude outside [-180, 180] or the type not in the catalog;
\* the limits themselves are accepted.  (Whole degrees: 91 stands for the
\* first latitude beyond the limit.)
C14_CreateValidates ==
    CreateReply =>
        /\ ~ValidCandidate(reply.facility) =>
               /\ reply.outcome = "thrown"
               /\ ~\E row \in facilities : StoredAs(row, reply.facility)
        /\ ValidCandidate(reply.facility) => reply.outcome = "returned"

C15_InvalidAreaRejected ==
    \A r \in Runs :
        run[r].center \in {"NaN", "out of range"} =>
            /\ run[r].pc = "done"
            /\ run[r].response.status = 400
            /\ run[r].fetched = "pending"
            /\ run[r].created = {}

(***************************************************************************)
(* Properties of the normalizer (specification SpecNormalize)              *)
(***************************************************************************)
\* the normalizer returned a facility for a node with a tag mapping
Normalized == reply.op = "parse" /\ reply.result.kind = "facility"

\* a three-valued flag read from one tag: true on a value of `yes`, false on
\* a value of `no`, unset when the tag is absent
Flag(tags, k, yes, no) ==
    IF Tag(tags, k) \in yes THEN "true"
    ELSE IF Tag(tags, k) \in no THEN "false"
    ELSE Undefined

\* C17: each accessibility flag is true only on an explicit affirmative tag
\* value, false only on an explicit negative value and unset when the tag is
\* absent: toilets:wheelchair=yes gives hasAccessibleToilet = true, and an
\* element without a wheelchair tag has wheelchairAccessible unset.
C17_FlagsThreeValued ==
    Normalized =>
        LET tags == reply.element.tags
            accessibility == reply.result.accessibility
        IN  /\ "wheelchair" \notin DOMAIN tags
                   => accessibility.wheelchairAccessible = Undefined
            /\ "wheelchair" \in DOMAIN tags
                   => accessibility.wheelchairAccessible
                          = Flag(tags, "wheelchair", {"yes", "limited"}, {"no"})
            /\ accessibility.hasAccessibleToilet
                   = Flag(tags, "toilets:wheelchair", {"yes"}, {"no"})
            /\ accessibility.hasRamp = Flag(tags, "ramp", {"yes"}, {"no"})

\* the rules of the classification: the tags that mark each category
ToiletTagged(tags) ==
    Tag(tags, "amenity") = "toilets" \/ Tag(tags, "toilets:wheelchair") = "yes"
ParkingTagged(tags) ==
    Tag(tags, "amenity") = "parking" \/ Tag(tags, "parking:disabled") = "yes"
ElevatorTagged(tags) ==
    Tag(tags, "highway") = "elevator" \/ Tag(tags, "elevator") = "yes"
RampTagged(tags) == Tag(tags, "ramp") = "yes"
EntranceTagged(tags) == "entrance" \in DOMAIN tags
StationTagged(tags) ==
    Tag(tags, "railway") = "station" \/ Tag(tags, "public_transport") = "station"

\* the type of the first rule of the ordered list that matches
FirstMatch(tags) ==
    CASE ToiletTagged(tags) -> "toilet"
      [] ~ToiletTagged(tags) /\ ParkingTagged(tags) -> "parking"
      [] ~ToiletTagged(tags) /\ ~ParkingTagged(tags) /\ ElevatorTagged(tags) -> "elevator"
      [] /\ ~ToiletTagged(tags) /\ ~ParkingTagged(tags) /\ ~ElevatorTagged(tags)
         /\ RampTagged(tags) -> "ramp"
      [] /\ ~ToiletTagged(tags) /\ ~ParkingTagged(tags) /\ ~ElevatorTagged(tags)
         /\ ~RampTagged(tags) /\ EntranceTagged(tags) -> "entrance"
      [] /\ ~ToiletTagged(tags) /\ ~ParkingTagged(tags) /\ ~ElevatorTagged(tags)
         /\ ~RampTagged(tags) /\ ~EntranceTagged(tags) /\ StationTagged(tags) -> "station"
      [] OTHER -> "entrance"

C20_RetriedBeforeGivingUp ==
    \A c \in Callers :
        caller[c].pc = "thrown" =>
            /\ caller[c].attempts > 1
            /\ caller[c].attempts <= documentedMaxRetries

(***************************************************************************)
(* Properties of concurrent import runs (specifications SpecGate, Spec)    *)
(***************************************************************************)
\* C21: at any moment at most one fetch of the process is suspended on the
\* rate gate.
C21_OneWaiterOnGate ==
    Cardinality({c \in Callers : caller[c].pc = "waiting"}) <= 1

\* the normalizer raises an error on the element
Unparsable(element) == parseOSMElement(element).kind = "throw"

\* C22: a run whose fetch succeeded does not abort on an element the
\* normalizer fails on: the remaining elements are processed and the run
\* completes; only a transport failure aborts a run.
C22_NormalizeFailureRecovered ==
    \A r \in Runs :
        (/\ run[r].pc = "done" /\ run[r].fetched = "ok"
         /\ \E i \in DOMAIN run[r].elements : Unparsable(run[r].elements[i]))
        => /\ run[r].response.status = 200
           /\ run[r].idx = Len(run[r].elements) + 1

\* the two runs overlapped in time: neither was answered when the other arrived
Concurrent(r1, r2) ==
    /\ r1 # r2
    /\ run[r1].pc = "done" /\ run[r2].pc = "done"
    /\ r1 \notin run[r2].after /\ r2 \notin run[r1].after

\* the rows that are not tombstoned and carry the external id of the element
LiveRowsOf(element) ==
    {row \in facilities :
        /\ Live(row) /\ "osm" \in DOMAIN row.external_ids
        /\ row.external_ids.osm = parseOSMElement(element).externalIds.osm}

\* C23: when two concurrent import runs were both given the same importable
\* element, neither run fails and the store ends with exactly one facility
\* that is not tombstoned for its (source, external id) pair.
C23_ConcurrentCreateConflictFree ==
    \A r1, r2 \in Runs :
        Concurrent(r1, r2) =>
            \A i \in DOMAIN run[r1].elements, j \in DOMAIN run[r2].elements :
                (/\ run[r1].elements[i] = run[r2].elements[j]
                 /\ Importable(run[r1].elements[i])
                 /\ run[r1].idx > i /\ run[r2].idx > j)
                => /\ run[r1].response.status = 200
                   /\ run[r2].response.status = 200
                   /\ Cardinality(LiveRowsOf(run[r1].elements[i])) = 1

\* an overall run timeout.  The code sets none (its only timeouts are those
\* of one HTTP request and of the pool); the claim is read with a timeout the
\* clock of the model can exceed.
RunTimeout == TickMs \div 2

\* C24: an import run that has lasted longer than the overall run timeout
\* when it ends (its request, the only one sent so far, was posted more than
\* RunTimeout ago) does not end as a clean success.
C24_RunTimeoutEnforced ==
    [][\A r \in Runs :
          (/\ run[r].pc # "done" /\ run'[r].pc = "done"
           /\ run'[r].fetched = "ok"
           /\ Len(sent) = 1 /\ now - sent[1] > RunTimeout)
          => run'[r].response.status # 200]_vars

\* the tag is missing or empty
NoValue(tags, k) == k \notin DOMAIN tags \/ tags[k] = ""

\* C25: a facility the normalizer hands to the store has a non-empty name:
\* the name tag, or without one the description, or without both a name
\* synthesized from the classified type and the street tag.
C25_NeverNameless ==
    Normalized =>
        LET tags == reply.element.tags
            name == reply.result.name
        IN  /\ name \notin {"", Undefined, NULL}
            /\ ~NoValue(tags, "name") => name = tags["name"]
            /\ (NoValue(tags, "name") /\ ~NoValue(tags, "description"))
                   => name = tags["description"]
            /\ (NoValue(tags, "name") /\ NoValue(tags, "description"))
                   => name = Capitalize(reply.result.facilityTypeId) \o " at "
                             \o (IF NoValue(tags, "addr:street") THEN "location"
                                 ELSE tags["addr:street"])

\* a parking node with an empty name tag and a street was given a synthetic name
C25_Witness ==
    /\ Normalized
    /\ "name" \in DOMAIN reply.element.tags /\ reply.element.tags["name"] = ""
    /\ reply.result.name = "Parking at High Street"

\* the elements of the run that are not nodes
WaysOf(r) == {i \in DOMAIN run[r].elements : run[r].elements[i].type # "node"}

\* C26: an element that is not a node never produces a facility and never
\* fails the run; the run counts it as skipped and goes on to its end.
C26_WaySkippedAndCounted ==
    \A r \in Runs :
        (/\ run[r].pc = "done" /\ run[r].fetched = "ok" /\ WaysOf(r) # {}
         /\ \A i \in DOMAIN run[r].elements : ~Unparsable(run[r].elements[i]))
        => /\ run[r].response.status = 200
           /\ run[r].idx = Len(run[r].elements) + 1
           /\ Cardinality(run[r].created) <= Len(run[r].elements) - Cardinality(WaysOf(r))
           /\ "skipped" \in DOMAIN run[r].response.data
           /\ run[r].response.data.skipped = Cardinality(WaysOf(r))

\* C27: a step of an import run leaves every stored facility as it is, and
\* stores no facility for a (source, external id) pair that a stored facility
\* already carries: the element is dropped as a duplicate.
C27_StoredFacilitiesUntouched ==
    [][/\ facilities \subseteq facilities'
       /\ \A new \in facilities' \ facilities :
              ~\E old \in facilities : Live(old) /\ SameExternalId(old, new)]_vars

\* C28: every facility of the store has a latitude in [-90, 90] and a
\* longitude in [-180, 180], whatever the provider returned to the import runs.
C28_StoredCoordinatesInRange ==
    \A row \in facilities :
        /\ row.lat \in -90 .. 90
        /\ row.lng \in -180 .. 180

\* the sum of the counters of the runs
RECURSIVE SumImported(_)
SumImported(R) ==
    IF R = {} THEN 0
    ELSE LET r == CHOOSE x \in R : TRUE
         IN  run[r].importedCount + SumImported(R \ {r})

\* C29: the counter of an import run is the number of facilities the run
\* added to the store, and the count it returns is that number: the store,
\* written by the runs alone, holds as many facilities as the runs counted,
\* and a run that threw before its loop added none.
C29_ImportedCountsAdded ==
    /\ Cardinality(facilities) = SumImported(Runs)
    /\ \A r \in Runs :
           /\ run[r].importedCount = Cardinality(run[r].created)
           /\ \A id \in run[r].created : \E row \in facilities : row.id = id
           /\ Completed(r) => run[r].response.data.imported = Cardinality(run[r].created)
           /\ run[r].fetched # "ok" => run[r].importedCount = 0

\* a run completed having added one facility of a batch of two, the store
\* having refused the other
C29_Witness ==
    \E r \in Runs :
        /\ Completed(r)
        /\ Len(run[r].elements) = 2
        /\ \E i \in DOMAIN run[r].elements : Malformed(run[r].elements[i])
        /\ run[r].response.data.imported = 1
        /\ Cardinality(facilities) = 1

(***************************************************************************)
(* Properties of pagination (specification SpecSearch)                     *)
(***************************************************************************)
\* the orderings of all the facilities the query matches
FullLists(params) ==
    OrderByDistance({WithDistance(row, params) : row \in Matching(params)})

\* C30: pagination slices one fixed ordering.  A page holds at most `limit`
\* facilities, and for an unchanged store two consecutive pages of one
\* facility are the first and the second element of one ordering of the full
\* match list, so they share no facility.
C30_PagesSliceOneOrdering ==
    /\ SearchReply =>
           Len(reply.facilities) <= OrDefault(reply.params.limit, defaultLimit)
    /\ reply.op = "pages" =>
           /\ \E full \in FullLists(reply.params) :
                  /\ reply.first = SubSeq(full, 1, Min(1, Len(full)))
                  /\ reply.second = SubSeq(full, 2, Min(2, Len(full)))
           /\ \A i \in DOMAIN reply.first, j \in DOMAIN reply.second :
                  reply.first[i].facility.id # reply.second[j].facility.id

====
